---- MODULE Spec2Model ----
(***************************************************************************)
(* Code-Editor-Live: the browser playground of script.js and utils.js.     *)
(*                                                                         *)
(* A text (pane content, test code, log message, assembled document) is a  *)
(* sequence of tokens.  A token stands for a run of characters: one user   *)
(* character ("a", " "), a piece of text the user typed that matters to    *)
(* the assembler ("/* tests */"), or one fixed piece of the document       *)
(* template ("<style>", "try{").  Time is counted in the milliseconds of   *)
(* setTimeout; a timer holds the time left until it is due.                *)
(***************************************************************************)
EXTENDS Integers, Sequences, FiniteSets, TLC

VARIABLES
    ed_html, ed_css, ed_js,   \* the text of the three Ace editors
    testArea, assignment,     \* #testArea.value and #assignment.value
    testEl,                   \* the page has a #testArea element
    preview,                  \* preview.srcdoc, the inline surface
    out,                      \* the lines of #output, the activity log
    store,                    \* localStorage[STORAGE_KEY]
    download,                 \* the file download triggered last
    timers,                   \* the host's table of pending timeouts
    autoRunTimer,             \* the handle kept by autoRunPreview
    win,                      \* the window of the last open-preview click
    reading,                  \* imported files whose text() is awaited
    result,                   \* the values of the direct assembler calls
    lastOp,                   \* history: the handler that ran last
    sinceEdit,                \* history: time since the last change event
    burst,                    \* history: change events in the current burst
    autoFires,                \* history: timer expiries since that event
    gapFire,                  \* history: an expiry came inside a short gap
    fired,                    \* history: the last expiry
    manual,                   \* history: the last manual run, while texts stand
    saved,                    \* history: the texts of the last save that wrote
    tabs, wraps,              \* the tab controls and the pane wrappers
    frames,                   \* the callbacks requestAnimationFrame holds
    focus,                    \* the editor that has the focus
    fontItem,                 \* localStorage["editorFontSize"]
    currentFontSize,          \* the script's currentFontSize
    edFont,                   \* the font size set on each editor
    direct,                   \* the last direct call of escapeHtml or log
    trail                     \* history: the last keys on the tab strip

vars == <<ed_html, ed_css, ed_js, testArea, assignment, testEl, preview, out,
          store, download, timers, autoRunTimer, win, reading, result, lastOp,
          sinceEdit, burst, autoFires, gapFire, fired, manual, saved, tabs,
          wraps, frames, focus, fontItem, currentFontSize, edFont, direct,
          trail>>

texts == <<ed_html, ed_css, ed_js, testArea, assignment>>
hist  == <<sinceEdit, burst, autoFires, gapFire, fired>>
strip == <<tabs, wraps, frames, focus, trail>>
font  == <<fontItem, currentFontSize, edFont>>
view  == <<strip, font, direct>>
page  == <<testEl, download, saved, view>>
core  == <<texts, testEl, download, saved, preview, out, store, timers,
           autoRunTimer, win, reading, result, hist, manual>>

---------------------------------------------------------------------------
(* Bounds of the model. *)

MaxPaneLen == 1     \* longest pane text handed to the assembler
MaxTestLen == 3     \* longest test text handed to the assembler
MaxLog     == 2     \* most lines the activity log holds before a clear
MaxBurst   == 2     \* the burst counter saturates here
TickStep   == 300   \* the clock advances in steps of this many ms
MaxLate    == 300   \* a due timer is run at most this late
MaxQuiet   == 900   \* the clock stops this long after the last change
MaxReading == 1     \* most file reads in flight at once
MaxCalls   == 3     \* most direct calls of the assembler
MaxFrames  == 2     \* most callbacks that wait for the next frame
MaxEscLen  == 3     \* longest text handed to escapeHtml

(* The quiet period of the debounce, setTimeout(..., 600). *)
Delay == 600

Min(S) == CHOOSE x \in S : \A y \in S : x <= y

SeqsUpTo(S, n) == UNION {[1..k -> S] : k \in 0..n}

PaneNames == {"html", "css", "js"}

---------------------------------------------------------------------------
(* Strings. *)

Marker == "/* tests */"

IsSpace(c) == c \in {" ", "\n"}

RECURSIVE TrimStart(_)
TrimStart(s) ==
    IF s # <<>> /\ IsSpace(Head(s)) THEN TrimStart(Tail(s)) ELSE s

RECURSIVE TrimEnd(_)
TrimEnd(s) ==
    IF s # <<>> /\ IsSpace(s[Len(s)]) THEN TrimEnd(SubSeq(s, 1, Len(s) - 1))
    ELSE s

(* String.prototype.trim *)
trim(s) == TrimEnd(TrimStart(s))

(* the positions at which sub occurs in s *)
Occurrences(s, sub) ==
    {i \in 1..(Len(s) - Len(sub) + 1) : SubSeq(s, i, i + Len(sub) - 1) = sub}

(* String.prototype.includes *)
Includes(s, sub) == Occurrences(s, sub) # {}

(* utils.js: each of & < > " becomes its entity, all else is kept *)
escapeChar(c) ==
    CASE c = "&" -> "&amp;"
      [] c = "<" -> "&lt;"
      [] c = ">" -> "&gt;"
      [] c = "\"" -> "&quot;"
      [] OTHER -> c

(* String(v) of a string, a number and null *)
String(v) == IF v.type = "null" THEN <<"null">> ELSE v.text

(* a replace without the g flag: the first match alone is replaced *)
escapeHtml_first(s) ==
    LET hits == {i \in 1..Len(s) : escapeChar(s[i]) # s[i]}
    IN  [i \in 1..Len(s) |->
            IF hits # {} /\ i = Min(hits) THEN escapeChar(s[i]) ELSE s[i]]

escapeHtml(s) == [i \in 1..Len(s) |-> escapeChar(s[i])]

---------------------------------------------------------------------------
(* The activity log. *)

color(type) ==
    IF type = "error" THEN "var(--err)"
    ELSE IF type = "warn" THEN "var(--warn)" ELSE "var(--brand)"

(* a log that puts the new line first *)
log_prepend(lines, msg, type) ==
    <<[color |-> color(type), text |-> escapeHtml(msg)]>> \o lines

(* log(msg, type): one line appended to #output *)
log(lines, msg, type) ==
    Append(lines, [color |-> color(type), text |-> escapeHtml(msg)])

CanLog == Len(out) < MaxLog

---------------------------------------------------------------------------
(* The document assembler. *)

(* the test part appended whatever the flag *)
TestsPart_always(t, withTests) ==
    IF trim(t) # <<>> THEN <<"\n", Marker, "\n">> \o trim(t) ELSE <<>>

(* the test part appended when the untrimmed text is not empty *)
TestsPart_noTrim(t, withTests) ==
    IF withTests /\ t # <<>> THEN <<"\n", Marker, "\n">> \o trim(t) ELSE <<>>

(* `\n/* tests */\n${tests}` when withTests and the trimmed text is not
   empty, '' otherwise *)
TestsPart(t, withTests) ==
    IF withTests /\ trim(t) # <<>> THEN <<"\n", Marker, "\n">> \o trim(t)
    ELSE <<>>

DocHead ==
    <<"<!DOCTYPE html>", "<html>", "<head>", "<meta charset>",
      "<meta viewport>", "<style>">>

DocMid == <<"\n", "</style>", "</head>", "<body>">>

DocScript == <<"<script>", "try{">>

DocTail ==
    <<"}catch(e) {", "console.error(e)", "}", "</script>", "</body>",
      "</html>">>

(* the template with html and css in each other's place *)
Assemble_swapped(h, c, j, t, withTests) ==
    DocHead \o h \o DocMid \o c \o DocScript \o j \o <<"\n">>
        \o TestsPart(t, withTests) \o DocTail

(* the template with the tests after the catch clause *)
Assemble_testsOutside(h, c, j, t, withTests) ==
    DocHead \o c \o DocMid \o h \o DocScript \o j \o <<"\n">>
        \o SubSeq(DocTail, 1, 3) \o TestsPart(t, withTests)
        \o SubSeq(DocTail, 4, Len(DocTail))

(* the template literal of buildwebSrcdoc over html, css, js and the value
   of #testArea *)
Assemble(h, c, j, t, withTests) ==
    DocHead \o c \o DocMid \o h \o DocScript \o j \o <<"\n">>
        \o TestsPart(t, withTests) \o DocTail

(* an absent #testArea read as the text "undefined" *)
TestValue_undefined == IF testEl THEN testArea ELSE <<"undefined">>

(* $("#testArea")?.value || "": the value of #testArea, or the empty text
   when the page has no such element *)
TestValue == IF testEl THEN testArea ELSE <<>>

(* an assembler that stamps each document with the number of the build *)
buildwebSrcdoc_counter(withTests) ==
    Assemble(ed_html, ed_css, ed_js, TestValue, withTests)
        \o [i \in 1..result.count |-> "<!-- build -->"]

buildwebSrcdoc(withTests) ==
    Assemble(ed_html, ed_css, ed_js, TestValue, withTests)

---------------------------------------------------------------------------
(* The autorun scheduler. *)

NoTimer == 0

(* setTimeout returns a handle that no pending timer and no kept handle has *)
FreshId(ts) ==
    Min({i \in 1..(Cardinality(ts) + 2) :
            i # autoRunTimer /\ \A t \in ts : t.id # i})

(* clearTimeout(id) *)
clearTimeout(ts, id) == {t \in ts : t.id # id}

(* autoRunPreview as a throttle: a pending timer is left to run *)
autoRunPreview_throttle ==
    IF \E t \in timers : t.id = autoRunTimer
    THEN UNCHANGED <<timers, autoRunTimer>>
    ELSE LET id == FreshId(timers)
         IN  /\ timers' = timers \cup {[id |-> id, left |-> Delay]}
             /\ autoRunTimer' = id

(* autoRunPreview without its setTimeout *)
autoRunPreview_cancelOnly ==
    /\ timers' = clearTimeout(timers, autoRunTimer)
    /\ autoRunTimer' = autoRunTimer

(* autoRunPreview without its clearTimeout *)
autoRunPreview_noClear ==
    LET id == FreshId(timers)
    IN  /\ timers' = timers \cup {[id |-> id, left |-> Delay]}
        /\ autoRunTimer' = id

(* autoRunPreview(), the listener of the three editors' change event *)
autoRunPreview ==
    LET left == clearTimeout(timers, autoRunTimer)
        id   == FreshId(left)
    IN  /\ timers' = left \cup {[id |-> id, left |-> Delay]}
        /\ autoRunTimer' = id

NoFire == [since |-> 0, late |-> 0]

(* history of a change event *)
NoteChange ==
    /\ sinceEdit' = 0
    /\ burst' = IF sinceEdit < Delay THEN Min({burst + 1, MaxBurst}) ELSE 1
    /\ autoFires' = 0
    /\ gapFire' = (autoFires > 0 /\ sinceEdit < Delay)
    /\ fired' = NoFire

NoManual == [valid |-> FALSE, withTests |-> FALSE, doc |-> <<>>]

NoSaved ==
    [valid |-> FALSE, html |-> <<>>, css |-> <<>>, js |-> <<>>,
     assignment |-> <<>>, test |-> <<>>]

(* Ace's setValue replaces the whole document: it removes the old text and
   inserts the new one, and each of the two that is not empty signals
   "change" *)
SetValueSignals(old, new) == old # <<>> \/ new # <<>>

---------------------------------------------------------------------------
(* JSON.  A JS value that the project code stores or reads is a string, a
   number or null; an object maps the names of its fields to such values.
   The text of a number is its numeral, one token. *)

Str(t) == [type |-> "string", text |-> t]
Num(n) == [type |-> "number", text |-> <<n>>]
Null   == [type |-> "null", text |-> <<>>]

NoFields == [f \in {} |-> Null]

(* the values Date.now() may return, in the order of time *)
Clock == <<"1767225600000", "1767225600001">>

Stamps == {Clock[i] : i \in DOMAIN Clock}

Numerals == {"0", "1", "42"} \cup Stamps

Quote == "\""

(* the characters JSON.stringify escapes in a string *)
JsonEscape(c) ==
    CASE c = "\"" -> "\\\""
      [] c = "\\" -> "\\\\"
      [] c = "\n" -> "\\n"
      [] OTHER -> c

JsonUnescape(c) ==
    CASE c = "\\\"" -> "\""
      [] c = "\\\\" -> "\\"
      [] c = "\\n" -> "\n"
      [] OTHER -> c

(* the JSON text of one value *)
ValueText(v) ==
    CASE v.type = "string" ->
            <<Quote>> \o [i \in 1..Len(v.text) |-> JsonEscape(v.text[i])]
                \o <<Quote>>
      [] v.type = "number" -> v.text
      [] OTHER -> <<"null">>

(* the order in which projectJSON writes its fields *)
KeyOrder ==
    <<"version", "kind", "createdAt", "lastModified", "assignment", "test",
      "html", "css", "js">>

RECURSIVE MemberTexts(_, _)
MemberTexts(ks, o) ==
    IF ks = <<>> THEN <<>>
    ELSE <<"\n  ", Quote, Head(ks), Quote, ":", " ">> \o ValueText(o[Head(ks)])
             \o (IF Len(ks) > 1 THEN <<",">> ELSE <<>>)
             \o MemberTexts(Tail(ks), o)

(* JSON.stringify(o, null, 2) of an object of strings, numbers and nulls *)
JSONstringify(o) ==
    LET InObject(k) == k \in DOMAIN o
        ks == SelectSeq(KeyOrder, InObject)
    IN  IF ks = <<>> THEN <<"{", "}">>
        ELSE <<"{">> \o MemberTexts(ks, o) \o <<"\n", "}">>

(* white space between the tokens of a JSON text *)
Ws == {" ", "\n", "\n  "}

(* the first place of s at or after i that holds no white space *)
RECURSIVE Skip(_, _)
Skip(s, i) == IF i <= Len(s) /\ s[i] \in Ws THEN Skip(s, i + 1) ELSE i

NoParse == [ok |-> FALSE, val |-> Null, next |-> 0]

(* the place of the first quote of s at or after i, 0 when there is none *)
RECURSIVE Closing(_, _)
Closing(s, i) ==
    IF i > Len(s) THEN 0 ELSE IF s[i] = Quote THEN i ELSE Closing(s, i + 1)

(* a string at place i of s: the text up to the closing quote, unescaped,
   and the place after it; a raw line break or a lone backslash inside is a
   syntax error *)
ParseString(s, i) ==
    IF i > Len(s) \/ s[i] # Quote \/ Closing(s, i + 1) = 0 THEN NoParse
    ELSE LET e == Closing(s, i + 1)
             body == SubSeq(s, i + 1, e - 1)
         IN  IF \E n \in 1..Len(body) : body[n] \in {"\n", "\\"}
             THEN NoParse
             ELSE [ok |-> TRUE,
                   val |-> Str([n \in 1..Len(body) |->
                                   JsonUnescape(body[n])]),
                   next |-> e + 1]

(* a string, a number or null at place i of s *)
ParseScalar(s, i) ==
    IF i > Len(s) THEN NoParse
    ELSE IF s[i] \in Numerals
    THEN [ok |-> TRUE, val |-> Num(s[i]), next |-> i + 1]
    ELSE IF s[i] = "null"
    THEN [ok |-> TRUE, val |-> Null, next |-> i + 1]
    ELSE ParseString(s, i)

NoMembers == [ok |-> FALSE, obj |-> NoFields]

(* the members of an object from place i of s, up to the closing brace
   that ends the text; a name is one token, a later member of the same name
   replaces the earlier one *)
RECURSIVE ParseMembers(_, _, _)
ParseMembers(s, i, acc) ==
    LET k == ParseString(s, i)
        colon == Skip(s, k.next)
    IN  IF ~k.ok \/ Len(k.val.text) # 1 \/ colon > Len(s) \/ s[colon] # ":"
        THEN NoMembers
        ELSE LET v == ParseScalar(s, Skip(s, colon + 1))
                 after == Skip(s, v.next)
                 name == k.val.text[1]
                 obj == [f \in DOMAIN acc \cup {name} |->
                            IF f = name THEN v.val ELSE acc[f]]
             IN  IF ~v.ok \/ after > Len(s) THEN NoMembers
                 ELSE IF s[after] = "}"
                 THEN IF Skip(s, after + 1) > Len(s)
                      THEN [ok |-> TRUE, obj |-> obj] ELSE NoMembers
                 ELSE IF s[after] = ","
                 THEN ParseMembers(s, Skip(s, after + 1), obj)
                 ELSE NoMembers

Thrown == [type |-> "throw", obj |-> NoFields]

(* JSON.parse(text): the type of the value and, of an object, its fields;
   type "throw" is a SyntaxError *)
JSONparse(text) ==
    LET first == Skip(text, 1)
        inner == Skip(text, first + 1)
    IN  IF first > Len(text) THEN Thrown
        ELSE IF text[first] = "{"
        THEN IF inner <= Len(text) /\ text[inner] = "}"
             THEN IF Skip(text, inner + 1) > Len(text)
                  THEN [type |-> "object", obj |-> NoFields] ELSE Thrown
             ELSE LET m == ParseMembers(text, inner, NoFields)
                  IN  IF m.ok THEN [type |-> "object", obj |-> m.obj]
                      ELSE Thrown
        ELSE LET v == ParseScalar(text, first)
             IN  IF v.ok /\ Skip(text, v.next) > Len(text)
                 THEN [type |-> v.val.type, obj |-> NoFields]
                 ELSE Thrown

---------------------------------------------------------------------------
(* Stored and imported projects.  The value under STORAGE_KEY is missing or
   a text; the text of an imported file is a text. *)

Missing == [kind |-> "missing", text |-> <<>>]
Item(t) == [kind |-> "text", text |-> t]

(* a text that JSON.parse rejects *)
Corrupt == Item(<<"{", "oops">>)

(* the JSON text of an object whose fields are the strings of o *)
Object(o) == Item(JSONstringify([f \in DOMAIN o |-> Str(o[f])]))

(* JSON.parse(localStorage.getItem(STORAGE_KEY)), null when it throws; a
   missing item is null, which JSON.parse reads as the text "null" *)
Cache(s) ==
    LET v == JSONparse(IF s.kind = "missing" THEN <<"null">> ELSE s.text)
    IN  IF v.type = "throw" THEN [type |-> "null", obj |-> NoFields] ELSE v

(* obj.f, read as the text "undefined" when the object has no such field *)
Field_undefined(o, f) ==
    IF f \notin DOMAIN o THEN <<"undefined">>
    ELSE IF o[f] # Num("0") THEN o[f].text ELSE <<>>

(* obj.f || "" *)
Field(o, f) ==
    IF f \in DOMAIN o /\ o[f] # Num("0") THEN o[f].text ELSE <<>>

DefaultHtml == <<"<!-- Welcome card -->">>
DefaultCss  == <<"body{font-family:system-ui}">>
DefaultJs   == <<"console.log('Hello from JavaScript!');">>

MsgLoaded  == <<"Web project loaded.">>
MsgFresh   == <<"Loaded default project (fresh start).">>
MsgReady   == <<"Ready">>
MsgUpdated == <<"Web preview updated.">>
MsgTests   == <<"Run with Tests">>
MsgInvalid == <<"Invalid project file">>
MsgUnable  == <<"Unable to load project. ", "TypeError">>
MsgNoWindow == <<"Runtime Error: ", "Cannot read properties of null">>

(* the test of initProject on the html field alone *)
LoadsDefaults_htmlOnly(cache) ==
    \/ cache.type # "object"
    \/ Field(cache.obj, "html") = <<>>

(* the test of initProject: the cache is missing, invalid or empty *)
LoadsDefaults(cache) ==
    \/ cache.type # "object"
    \/ Field(cache.obj, "html") = <<>>
    \/ Field(cache.obj, "css") = <<>>
    \/ Field(cache.obj, "js") = <<>>

---------------------------------------------------------------------------
(* The tab strip.  The page has one tab control and one pane wrapper for
   each of html, css and js, in that order. *)

TAB_ORDER == <<"html", "css", "js">>

(* TAB_ORDER.indexOf(name) *)
indexOf(name) ==
    IF \E i \in DOMAIN TAB_ORDER : TAB_ORDER[i] = name
    THEN (CHOOSE i \in DOMAIN TAB_ORDER : TAB_ORDER[i] = name) - 1
    ELSE 0 - 1

(* TAB_ORDER[i], undefined outside the array *)
At(i) == IF i + 1 \in DOMAIN TAB_ORDER THEN TAB_ORDER[i + 1] ELSE "undefined"

(* a % n of JS, which has the sign of a *)
Rem(a, n) == IF a < 0 THEN 0 - ((0 - a) % n) ELSE a % n

(* a tab control as showPane leaves it: the class active, the attribute
   aria-selected, which holds the text of the boolean, and tabIndex *)
Tab(on) ==
    [active |-> on,
     ariaSelected |-> IF on THEN "true" ELSE "false",
     tabIndex |-> IF on THEN 0 ELSE 0 - 1]

Wrap(on) == [hidden |-> ~on]

(* activePane(): the pane of the first tab that has the class active, html
   when no tab has it *)
activePane ==
    LET on == {i \in DOMAIN TAB_ORDER : tabs[TAB_ORDER[i]].active}
    IN  IF on = {} THEN "html" ELSE TAB_ORDER[Min(on)]

(* a showPane that marks the tab of name and leaves the other tabs *)
showPane_markOnly(name) ==
    /\ wraps' = [k \in PaneNames |-> Wrap(k = name)]
    /\ tabs' = [p \in PaneNames |-> IF p = name THEN Tab(TRUE) ELSE tabs[p]]
    /\ frames' = Append(frames, name)

(* showPane(name): every wrapper but that of name is hidden, every tab is
   marked by whether it is the tab of name, and the focus is asked for at
   the next frame *)
showPane(name) ==
    /\ wraps' = [k \in PaneNames |-> Wrap(k = name)]
    /\ tabs' = [p \in PaneNames |-> Tab(p = name)]
    /\ frames' = Append(frames, name)

(* the editor that has the focus when the callbacks fs have run in their
   order: each gives it to editors[name], if there is such an editor *)
RECURSIVE Focused(_, _)
Focused(fs, f) ==
    IF fs = <<>> THEN f
    ELSE Focused(Tail(fs), IF Head(fs) \in PaneNames THEN Head(fs) ELSE f)

NoTrail == <<>>

(* history of a key on the tab strip: the last two, each with the pane that
   was active when it came *)
NoteKey(key) ==
    LET t == Append(trail, [key |-> key, from |-> activePane])
    IN  trail' = IF Len(t) > 2 THEN Tail(t) ELSE t

---------------------------------------------------------------------------
(* The font size.  The text of a number is its numeral, one token. *)

Numeral ==
    <<"0", "1", "2", "3", "4", "5", "6", "7", "8", "9", "10", "11", "12",
      "13", "14", "15", "16", "17", "18", "19", "20", "21", "22", "23", "24",
      "25", "26", "27", "28", "29", "30", "31">>

(* a JS number that is an integer, and NaN *)
Size(n) == [nan |-> FALSE, n |-> n]
NaN     == [nan |-> TRUE, n |-> 0]

(* parseInt(t, 10): the number of the numeral t starts with, NaN when it
   starts with none *)
parseInt(t) ==
    LET ns == {n \in 0..(Len(Numeral) - 1) : t # <<>> /\ Numeral[n + 1] = t[1]}
    IN  IF ns = {} THEN NaN ELSE Size(CHOOSE n \in ns : TRUE)

(* String(x) of a number *)
NumText(x) == IF x.nan THEN <<"NaN">> ELSE <<Numeral[x.n + 1]>>

(* `${x}px` *)
Px(x) == NumText(x) \o <<"px">>

MinFont == 12
MaxFont == 26

(* localStorage.getItem("editorFontSize") || dflt *)
FontOr(item, dflt) ==
    IF item.kind = "missing" \/ item.text = <<>> THEN dflt ELSE item.text

(* localStorage.setItem("editorFontSize", text), on the font state fs *)
setFontItem(fs, text) ==
    [fs EXCEPT !.fontItem = [kind |-> "text", text |-> text]]

(* a setEditorFontSize that leaves the js editor out *)
setEditorFontSize_two(fs, size) ==
    setFontItem([fs EXCEPT !.edFont = [p \in PaneNames |->
                                          IF p = "js" THEN @[p] ELSE size]],
                size)

(* setEditorFontSize(size): the three editors, then the item *)
setEditorFontSize(fs, size) ==
    setFontItem([fs EXCEPT !.edFont = [p \in PaneNames |-> size]], size)

(* an applyFontSize that passes the number on *)
applyFontSize_number(fs) == setEditorFontSize(fs, NumText(fs.currentFontSize))

(* applyFontSize() *)
applyFontSize(fs) == setEditorFontSize(fs, Px(fs.currentFontSize))

(* a handler that sets the item to the number and stops there *)
fontStep_noApply(fs, d) ==
    LET n == Size(fs.currentFontSize.n + d)
    IN  setFontItem([fs EXCEPT !.currentFontSize = n], NumText(n))

(* the body of the two click handlers: the size moves by d, the item is set
   to the number and applyFontSize runs *)
fontStep(fs, d) ==
    LET n == Size(fs.currentFontSize.n + d)
    IN  applyFontSize(setFontItem([fs EXCEPT !.currentFontSize = n],
                                  NumText(n)))

NoFont ==
    [fontItem |-> [kind |-> "missing", text |-> <<>>],
     currentFontSize |-> NaN,
     edFont |-> [p \in PaneNames |-> <<"17", "px">>]]

(* lines 237 to 269 of the script over the item it finds: the saved size is
   restored, currentFontSize is parsed from the item and applied *)
FontStartup(item) ==
    LET restored ==
            setEditorFontSize([NoFont EXCEPT !.fontItem = item],
                              FontOr(item, <<"17", "px">>))
        parsed == parseInt(FontOr(restored.fontItem, <<"17">>))
    IN  applyFontSize([restored EXCEPT !.currentFontSize = parsed])

---------------------------------------------------------------------------
(* The page load. *)

NoWin == [url |-> "", calls |-> <<>>, doc |-> <<>>]
NoDownload == [name |-> "", type |-> "", text |-> <<>>]
NoResult ==
    [last |-> FALSE, count |-> 0, called |-> [b \in BOOLEAN |-> FALSE],
     doc |-> [b \in BOOLEAN |-> <<>>]]

(* a script that wires the change listeners after initProject has run: the
   panes are filled unheard and no timer is started *)
StartupFrom_unwired(cache) ==
    LET d == LoadsDefaults(cache)
        o == cache.obj
    IN  [ed_html |-> IF d THEN DefaultHtml ELSE Field(o, "html"),
         ed_css  |-> IF d THEN DefaultCss ELSE Field(o, "css"),
         ed_js   |-> IF d THEN DefaultJs ELSE Field(o, "js"),
         testArea   |-> IF d THEN <<>> ELSE Field(o, "test"),
         testEl     |-> TRUE,
         assignment |-> IF d THEN <<>> ELSE Field(o, "assignment"),
         out |-> log(log(<<>>, IF d THEN MsgFresh ELSE MsgLoaded, "info"),
                     MsgReady, "info"),
         timers |-> {},
         autoRunTimer |-> NoTimer]

(* The state the script leaves when it has run to its last line with the
   parsed cache: the editors are made, the change listeners are wired and
   then initProject fills the panes, which signals change and starts the
   timer. *)
StartupFrom(cache) ==
    LET d == LoadsDefaults(cache)
        o == cache.obj
    IN  [ed_html |-> IF d THEN DefaultHtml ELSE Field(o, "html"),
         ed_css  |-> IF d THEN DefaultCss ELSE Field(o, "css"),
         ed_js   |-> IF d THEN DefaultJs ELSE Field(o, "js"),
         testArea   |-> IF d THEN <<>> ELSE Field(o, "test"),
         testEl     |-> TRUE,
         assignment |-> IF d THEN <<>> ELSE Field(o, "assignment"),
         out |-> log(log(<<>>, IF d THEN MsgFresh ELSE MsgLoaded, "info"),
                     MsgReady, "info"),
         timers |-> {[id |-> 1, left |-> Delay]},
         autoRunTimer |-> 1]

(* the same over the store s, whose item is parsed once *)
Startup(s) == CHOOSE st \in {StartupFrom(cache) : cache \in {Cache(s)}} : TRUE

NoDirect == [fn |-> "none", arg |-> Null, type |-> "", value |-> <<>>]

(* the tab strip and the font size when the script has run over the font
   item it found: showPane("html") has run and its callback waits *)
ViewStarted(item) ==
    /\ tabs = [p \in PaneNames |-> Tab(p = "html")]
    /\ wraps = [k \in PaneNames |-> Wrap(k = "html")]
    /\ frames = <<"html">>
    /\ focus = "none"
    /\ trail = NoTrail
    /\ \E fs \in {FontStartup(item)} :
          /\ fontItem = fs.fontItem
          /\ currentFontSize = fs.currentFontSize
          /\ edFont = fs.edFont
    /\ direct = NoDirect

ProjectStarted(s, st) ==
    /\ ed_html = st.ed_html /\ ed_css = st.ed_css /\ ed_js = st.ed_js
    /\ testArea = st.testArea /\ assignment = st.assignment
    /\ testEl = st.testEl
    /\ out = st.out
    /\ timers = st.timers /\ autoRunTimer = st.autoRunTimer
    /\ store = s
    /\ download = NoDownload
    /\ preview = <<>>
    /\ win = NoWin
    /\ reading = {}
    /\ result = NoResult
    /\ lastOp = "startup"
    /\ sinceEdit = 0 /\ burst = 1 /\ autoFires = 0 /\ gapFire = FALSE
    /\ fired = NoFire
    /\ manual = NoManual
    /\ saved = NoSaved

Started(s, st) == ProjectStarted(s, st) /\ ViewStarted(Missing)

InitStores == {Missing}

Init == \E s \in InitStores : Started(s, Startup(s))

---------------------------------------------------------------------------
(* The handlers. *)

Pane(p) == IF p = "html" THEN ed_html ELSE IF p = "css" THEN ed_css ELSE ed_js

EditTexts == {<<"a">>}
TestTexts == {<<>>, <<"t">>}
NoteTexts == {<<>>, <<"n">>}

(* The user changes the text of one pane: the editor signals change and
   autoRunPreview runs. *)
EditPane(p, v) ==
    /\ v # Pane(p)
    /\ ed_html' = IF p = "html" THEN v ELSE ed_html
    /\ ed_css' = IF p = "css" THEN v ELSE ed_css
    /\ ed_js' = IF p = "js" THEN v ELSE ed_js
    /\ autoRunPreview
    /\ NoteChange
    /\ manual' = NoManual
    /\ lastOp' = "edit"
    /\ UNCHANGED <<testArea, assignment, preview, out, store, page, win,
                   reading, result>>

(* a #testArea whose input is heard by autoRunPreview *)
EditTests_listens(v) ==
    /\ testEl
    /\ v # testArea
    /\ testArea' = v
    /\ autoRunPreview
    /\ NoteChange
    /\ manual' = NoManual
    /\ lastOp' = "editTests"
    /\ UNCHANGED <<ed_html, ed_css, ed_js, assignment, preview, out, store,
                   page, win, reading, result>>

(* The user changes #testArea, which has no listener. *)
EditTests(v) ==
    /\ testEl
    /\ v # testArea
    /\ testArea' = v
    /\ manual' = NoManual
    /\ lastOp' = "editTests"
    /\ UNCHANGED <<ed_html, ed_css, ed_js, assignment, preview, out, store,
                   page, timers, autoRunTimer, win, reading, result, hist>>

(* The user changes #assignment, which has no listener. *)
EditAssignment(v) ==
    /\ v # assignment
    /\ assignment' = v
    /\ manual' = NoManual
    /\ lastOp' = "editAssignment"
    /\ UNCHANGED <<ed_html, ed_css, ed_js, testArea, preview, out, store, page,
                   timers, autoRunTimer, win, reading, result, hist>>

(* runWeb that cancels the pending timer *)
runWeb_cancel(ts, withTests) ==
    /\ preview' = buildwebSrcdoc(withTests)
    /\ out' = log(out, IF withTests THEN MsgTests ELSE MsgUpdated, "info")
    /\ timers' = clearTimeout(ts, autoRunTimer)
    /\ autoRunTimer' = autoRunTimer

(* runWeb(withTests), run with the timer table ts: it assigns the srcdoc and
   logs, and touches no timer *)
runWeb(ts, withTests) ==
    /\ preview' = buildwebSrcdoc(withTests)
    /\ out' = log(out, IF withTests THEN MsgTests ELSE MsgUpdated, "info")
    /\ timers' = ts
    /\ autoRunTimer' = autoRunTimer

(* #runWeb click, and the editors' Ctrl-Enter command: runWeb(false) *)
RunWebClick ==
    /\ CanLog
    /\ runWeb(timers, FALSE)
    /\ manual' = [valid |-> TRUE, withTests |-> FALSE, doc |-> preview']
    /\ lastOp' = "run"
    /\ UNCHANGED <<texts, store, page, win, reading, result, hist>>

(* the run command of editor p, bound to Ctrl-Enter: runWeb(false) *)
RunCommand(p) ==
    /\ p \in PaneNames
    /\ CanLog
    /\ runWeb(timers, FALSE)
    /\ manual' = [valid |-> TRUE, withTests |-> FALSE, doc |-> preview']
    /\ lastOp' = "runKey"
    /\ UNCHANGED <<texts, store, page, win, reading, result, hist>>

(* #runTests click: runWeb(true) *)
RunTestsClick ==
    /\ CanLog
    /\ runWeb(timers, TRUE)
    /\ manual' = [valid |-> TRUE, withTests |-> TRUE, doc |-> preview']
    /\ lastOp' = "runTests"
    /\ UNCHANGED <<texts, store, page, win, reading, result, hist>>

(* a timer callback that runs the tests too *)
TimerFire_tests(t) ==
    /\ t \in timers
    /\ t.left <= 0
    /\ CanLog
    /\ runWeb(timers \ {t}, TRUE)
    /\ autoFires' = autoFires + 1
    /\ fired' = [since |-> sinceEdit, late |-> 0 - t.left]
    /\ lastOp' = "timer"
    /\ UNCHANGED <<texts, store, page, win, reading, result, sinceEdit, burst,
                   gapFire, manual>>

(* The host runs the callback of a due timer: runWeb(false). *)
TimerFire(t) ==
    /\ t \in timers
    /\ t.left <= 0
    /\ CanLog
    /\ runWeb(timers \ {t}, FALSE)
    /\ autoFires' = autoFires + 1
    /\ fired' = [since |-> sinceEdit, late |-> 0 - t.left]
    /\ lastOp' = "timer"
    /\ UNCHANGED <<texts, store, page, win, reading, result, sinceEdit, burst,
                   gapFire, manual>>

TimerFires == \E t \in timers : TimerFire(t)

(* Time passes.  The host runs a due timer at most MaxLate after it is due. *)
Tick ==
    /\ sinceEdit + TickStep <= MaxQuiet
    /\ \A t \in timers : t.left - TickStep >= 0 - MaxLate
    /\ timers' = {[t EXCEPT !.left = @ - TickStep] : t \in timers}
    /\ sinceEdit' = sinceEdit + TickStep
    /\ lastOp' = "tick"
    /\ UNCHANGED <<texts, preview, out, store, page, autoRunTimer, win, reading,
                   result, burst, autoFires, gapFire, fired, manual>>

(* #clearOut click *)
clearOut ==
    /\ out # <<>>
    /\ out' = <<>>
    /\ lastOp' = "clear"
    /\ UNCHANGED <<texts, preview, store, page, timers, autoRunTimer, win,
                   reading, result, hist, manual>>

(* an open-preview that writes the document with the tests *)
OpenPreviewClick_tests(blocked) ==
    /\ IF blocked
       THEN /\ CanLog
            /\ out' = log(out, MsgNoWindow, "error")
            /\ win' = NoWin
       ELSE /\ win' = [url |-> "about:blank",
                       calls |-> <<"document.open", "document.write",
                                   "document.close">>,
                       doc |-> buildwebSrcdoc(TRUE)]
            /\ out' = out
    /\ lastOp' = IF blocked THEN "openBlocked" ELSE "openPreview"
    /\ UNCHANGED <<texts, preview, store, page, timers, autoRunTimer, reading,
                   result, hist, manual>>

(* #openPreview click.  window.open returns the new window, or null when the
   host blocks it; w.document of null throws, and the uncaught error
   reaches the listener of the window's error event, which logs it. *)
OpenPreviewClick(blocked) ==
    /\ IF blocked
       THEN /\ CanLog
            /\ out' = log(out, MsgNoWindow, "error")
            /\ win' = NoWin
       ELSE /\ win' = [url |-> "about:blank",
                       calls |-> <<"document.open", "document.write",
                                   "document.close">>,
                       doc |-> buildwebSrcdoc(FALSE)]
            /\ out' = out
    /\ lastOp' = IF blocked THEN "openBlocked" ELSE "openPreview"
    /\ UNCHANGED <<texts, preview, store, page, timers, autoRunTimer, reading,
                   result, hist, manual>>

(* a loadProject that fills what is empty alone: a pane or a field that
   holds text keeps it, so that what the user did while the file was read
   outlives the import *)
loadProject_fill(v) ==
    LET o == v.obj
        h == IF ed_html = <<>> THEN Field(o, "html") ELSE ed_html
        c == IF ed_css = <<>> THEN Field(o, "css") ELSE ed_css
        j == IF ed_js = <<>> THEN Field(o, "js") ELSE ed_js
    IN  IF v.type = "null"
        THEN /\ out' = log(out, MsgUnable, "error")
             /\ UNCHANGED <<texts, timers, autoRunTimer, hist>>
        ELSE /\ assignment' = IF assignment = <<>>
                              THEN Field(o, "assignment") ELSE assignment
             /\ testArea' = IF testEl /\ testArea = <<>>
                            THEN Field(o, "test") ELSE testArea
             /\ ed_html' = h /\ ed_css' = c /\ ed_js' = j
             /\ out' = log(out, MsgLoaded, "info")
             /\ IF \/ SetValueSignals(ed_html, h)
                   \/ SetValueSignals(ed_css, c)
                   \/ SetValueSignals(ed_js, j)
                THEN autoRunPreview /\ NoteChange
                ELSE UNCHANGED <<timers, autoRunTimer, hist>>

(* a loadProject with the test of initProject: an object without a
   non-empty html, css or js gives way to the default content *)
loadProject_required(v) ==
    LET o == v.obj
        d == LoadsDefaults(v)
        h == IF d THEN DefaultHtml ELSE Field(o, "html")
        c == IF d THEN DefaultCss ELSE Field(o, "css")
        j == IF d THEN DefaultJs ELSE Field(o, "js")
    IN  IF v.type = "null"
        THEN /\ out' = log(out, MsgUnable, "error")
             /\ UNCHANGED <<texts, timers, autoRunTimer, hist>>
        ELSE /\ assignment' = IF d THEN assignment ELSE Field(o, "assignment")
             /\ testArea' = IF d \/ ~testEl THEN testArea ELSE Field(o, "test")
             /\ ed_html' = h /\ ed_css' = c /\ ed_js' = j
             /\ out' = log(out, IF d THEN MsgFresh ELSE MsgLoaded, "info")
             /\ IF \/ SetValueSignals(ed_html, h)
                   \/ SetValueSignals(ed_css, c)
                   \/ SetValueSignals(ed_js, j)
                THEN autoRunPreview /\ NoteChange
                ELSE UNCHANGED <<timers, autoRunTimer, hist>>

(* loadProject(obj) over a parsed value: the two fields and the three panes
   are set from the object, the panes through setValue; reading a field of
   null throws at the first statement, and the catch clause logs *)
loadProject(v) ==
    LET o == v.obj
        h == Field(o, "html")
        c == Field(o, "css")
        j == Field(o, "js")
    IN  IF v.type = "null"
        THEN /\ out' = log(out, MsgUnable, "error")
             /\ UNCHANGED <<texts, timers, autoRunTimer, hist>>
        ELSE /\ assignment' = Field(o, "assignment")
             /\ testArea' = IF testEl THEN Field(o, "test") ELSE testArea
             /\ ed_html' = h /\ ed_css' = c /\ ed_js' = j
             /\ out' = log(out, MsgLoaded, "info")
             /\ IF \/ SetValueSignals(ed_html, h)
                   \/ SetValueSignals(ed_css, c)
                   \/ SetValueSignals(ed_js, j)
                THEN autoRunPreview /\ NoteChange
                ELSE UNCHANGED <<timers, autoRunTimer, hist>>

ImportFiles ==
    {Corrupt,
     Object([html |-> <<"a">>, css |-> <<"a">>, js |-> <<"a">>,
             test |-> <<"t">>])}

(* #openFile change with a file chosen: the handler awaits f.text() *)
FileChosen(f) ==
    /\ f \notin reading
    /\ Cardinality(reading) < MaxReading
    /\ reading' = reading \cup {f}
    /\ lastOp' = "choose"
    /\ UNCHANGED <<texts, preview, out, store, page, timers, autoRunTimer, win,
                   result, hist, manual>>

(* #openFile change with no file: the handler returns *)
FileDismissed ==
    /\ lastOp' = "dismiss"
    /\ UNCHANGED <<texts, preview, out, store, page, timers, autoRunTimer, win,
                   reading, result, hist, manual>>

(* a handler that falls back to the default content, as initProject does,
   when the text of the file is rejected *)
FileRead_defaults(f) ==
    /\ f \in reading
    /\ CanLog
    /\ \E v \in {JSONparse(f.text)} :
        /\ reading' = reading \ {f}
        /\ IF v.type = "throw"
           THEN /\ out' = log(out, MsgInvalid, "error")
                /\ ed_html' = DefaultHtml
                /\ ed_css' = DefaultCss
                /\ ed_js' = DefaultJs
                /\ UNCHANGED <<testArea, assignment>>
                /\ autoRunPreview /\ NoteChange
           ELSE loadProject(v)
        /\ manual' = IF v.type = "null" THEN manual ELSE NoManual
        /\ lastOp' = IF v.type = "throw" THEN "importInvalid"
                     ELSE IF v.type = "null" THEN "importUnable" ELSE "import"
        /\ UNCHANGED <<preview, store, page, win, result>>

(* a handler that logs a rejected file as a warning *)
FileRead_warn(f) ==
    /\ f \in reading
    /\ CanLog
    /\ \E v \in {JSONparse(f.text)} :
        /\ reading' = reading \ {f}
        /\ IF v.type = "throw"
           THEN /\ out' = log(out, MsgInvalid, "warn")
                /\ UNCHANGED <<texts, timers, autoRunTimer, hist>>
           ELSE loadProject(v)
        /\ manual' = IF v.type \in {"throw", "null"} THEN manual ELSE NoManual
        /\ lastOp' = IF v.type = "throw" THEN "importInvalid"
                     ELSE IF v.type = "null" THEN "importUnable" ELSE "import"
        /\ UNCHANGED <<preview, store, page, win, result>>

(* The text of a chosen file arrives: JSON.parse, then loadProject, or the
   catch clause of the handler. *)
FileRead(f) ==
    /\ f \in reading
    /\ CanLog
    /\ \E v \in {JSONparse(f.text)} :
        /\ reading' = reading \ {f}
        /\ IF v.type = "throw"
           THEN /\ out' = log(out, MsgInvalid, "error")
                /\ UNCHANGED <<texts, timers, autoRunTimer, hist>>
           ELSE loadProject(v)
        /\ manual' = IF v.type \in {"throw", "null"} THEN manual ELSE NoManual
        /\ lastOp' = IF v.type = "throw" THEN "importInvalid"
                     ELSE IF v.type = "null" THEN "importUnable" ELSE "import"
        /\ UNCHANGED <<preview, store, page, win, result>>

(* The editor with its scheduler: edits, manual runs, imports, the clock
   and the timer. *)
Next ==
    \/ \E p \in PaneNames, v \in EditTexts : EditPane(p, v)
    \/ \E v \in TestTexts : EditTests(v)
    \/ \E v \in NoteTexts : EditAssignment(v)
    \/ RunWebClick
    \/ RunTestsClick
    \/ \E t \in timers : TimerFire(t)
    \/ Tick
    \/ clearOut
    \/ \E f \in ImportFiles : FileChosen(f)
    \/ \E f \in ImportFiles : FileRead(f)

Spec == Init /\ [][Next]_vars

---------------------------------------------------------------------------
(* The assembler on its own: any pane and test texts, and direct calls of
   buildwebSrcdoc as the test suite makes them. *)

AsmPaneTexts == SeqsUpTo({"a", Marker}, MaxPaneLen)
AsmTestTexts == SeqsUpTo({"a", " "}, MaxTestLen)

InitAsm ==
    \E h \in AsmPaneTexts, c \in AsmPaneTexts, j \in AsmPaneTexts,
       e \in BOOLEAN :
        \E t \in IF e THEN AsmTestTexts ELSE {<<>>} :
            Started(Missing,
                    [Startup(Missing) EXCEPT !.ed_html = h, !.ed_css = c,
                                             !.ed_js = j, !.testArea = t,
                                             !.testEl = e])

(* buildwebSrcdoc(withTests) called on its own; result keeps what the
   calls returned, by flag *)
CallBuild(withTests) ==
    /\ result.count < MaxCalls
    /\ result' = [last |-> withTests,
                  count |-> result.count + 1,
                  called |-> [result.called EXCEPT ![withTests] = TRUE],
                  doc |-> [result.doc EXCEPT
                              ![withTests] = buildwebSrcdoc(withTests)]]
    /\ lastOp' = "build"
    /\ UNCHANGED <<texts, preview, out, store, page, timers, autoRunTimer, win,
                   reading, hist, manual>>

NextAsm == \E wt \in BOOLEAN : CallBuild(wt)

SpecAsm == InitAsm /\ [][NextAsm]_vars

---------------------------------------------------------------------------
(* The isolated preview: edits and clicks on #openPreview. *)

NextOpen ==
    \/ \E p \in PaneNames, v \in EditTexts \cup {<<>>} : EditPane(p, v)
    \/ \E v \in TestTexts : EditTests(v)
    \/ \E b \in BOOLEAN : OpenPreviewClick(b)
    \/ clearOut

SpecOpen == Init /\ [][NextOpen]_vars

---------------------------------------------------------------------------
(* Persistence: save, and the load of the next page load. *)

MsgSaved == <<"Saved locally and downloaded JSON file">>
MsgSaveFailed == <<"Unable to save: ", "QuotaExceededError">>

(* projectJSON(), the two calls of Date.now() returning created and
   modified *)
projectJSON(created, modified) ==
    [version |-> Num("1"),
     kind |-> Str(<<"web-only">>),
     createdAt |-> Num(created),
     lastModified |-> Num(modified),
     assignment |-> Str(assignment),
     test |-> Str(TestValue),
     html |-> Str(ed_html),
     css |-> Str(ed_css),
     js |-> Str(ed_js)]

(* a save that triggers the download before it writes the store *)
saveProject_downloadFirst(fails, data) ==
    /\ store' = IF fails THEN store ELSE Item(data)
    /\ download' = [name |-> "Code-web.json", type |-> "application/json",
                    text |-> data]
    /\ out' = IF fails THEN log(out, MsgSaveFailed, "error")
              ELSE log(out, MsgSaved, "info")

(* a save that stores the panes alone *)
saveProject_panesOnly(fails, data) ==
    LET o == JSONparse(data).obj
        kept == [f \in DOMAIN o \ {"assignment", "test"} |-> o[f]]
    IN  IF fails
        THEN /\ out' = log(out, MsgSaveFailed, "error")
             /\ UNCHANGED <<store, download>>
        ELSE /\ store' = Item(JSONstringify(kept))
             /\ download' = [name |-> "Code-web.json",
                             type |-> "application/json",
                             text |-> JSONstringify(kept)]
             /\ out' = log(out, MsgSaved, "info")

(* saveProject() over the text data of the project: localStorage.setItem
   throws when fails, and the catch clause logs; else the item is replaced,
   the download of the same text is triggered and the success is logged *)
saveProject(fails, data) ==
    IF fails
    THEN /\ out' = log(out, MsgSaveFailed, "error")
         /\ UNCHANGED <<store, download>>
    ELSE /\ store' = Item(data)
         /\ download' = [name |-> "Code-web.json", type |-> "application/json",
                         text |-> data]
         /\ out' = log(out, MsgSaved, "info")

(* #saveBtn click, and the editors' Ctrl-S command *)
SaveClick(fails, created, modified) ==
    /\ CanLog
    /\ saveProject(fails, JSONstringify(projectJSON(created, modified)))
    /\ saved' = IF fails THEN saved
                ELSE [valid |-> TRUE, html |-> ed_html, css |-> ed_css,
                      js |-> ed_js, assignment |-> assignment,
                      test |-> TestValue]
    /\ lastOp' = IF fails THEN "saveFailed" ELSE "save"
    /\ UNCHANGED <<texts, testEl, view, preview, timers, autoRunTimer, win,
                   reading, result, hist, manual>>

(* The page is loaded again: the script runs from its first line over the
   store as it stands. *)
Reload ==
    \E st \in {Startup(store)} :
        /\ ed_html' = st.ed_html /\ ed_css' = st.ed_css /\ ed_js' = st.ed_js
        /\ testArea' = st.testArea /\ assignment' = st.assignment
        /\ out' = st.out
        /\ timers' = st.timers /\ autoRunTimer' = st.autoRunTimer
        /\ download' = NoDownload
        /\ preview' = <<>>
        /\ win' = NoWin
        /\ reading' = {}
        /\ sinceEdit' = 0 /\ burst' = 1 /\ autoFires' = 0 /\ gapFire' = FALSE
        /\ fired' = NoFire
        /\ manual' = NoManual
        /\ tabs' = [p \in PaneNames |-> Tab(p = "html")]
        /\ wraps' = [k \in PaneNames |-> Wrap(k = "html")]
        /\ frames' = <<"html">>
        /\ focus' = "none"
        /\ trail' = NoTrail
        /\ \E fs \in {FontStartup(fontItem)} :
              /\ fontItem' = fs.fontItem
              /\ currentFontSize' = fs.currentFontSize
              /\ edFont' = fs.edFont
        /\ lastOp' = "reload"
        /\ UNCHANGED <<store, testEl, result, saved, direct>>

(* the stores a page load may find *)
StoreInits ==
    {Missing,
     Corrupt,
     Item(<<"42">>),
     Object([html |-> <<"p">>, css |-> <<>>, js |-> <<>>]),
     Object([html |-> <<"a">>, css |-> <<"a">>, js |-> <<"a">>,
             assignment |-> <<"n">>])}

InitStore == \E s \in StoreInits : Started(s, Startup(s))

StoreEdits == {<<>>}

(* The editor with its store: edits, saves, page loads and imports. *)
NextStore ==
    \/ \E p \in PaneNames, v \in StoreEdits : EditPane(p, v)
    \/ \E v \in TestTexts : EditTests(v)
    \/ \E fails \in BOOLEAN, i \in DOMAIN Clock, j \in DOMAIN Clock :
          i <= j /\ SaveClick(fails, Clock[i], Clock[j])
    \/ Reload
    \/ clearOut

SpecStore == InitStore /\ [][NextStore]_vars

(* The editor with its save button: edits, runs with tests and saves over
   the first page load. *)
NextSave ==
    \/ \E p \in PaneNames, v \in StoreEdits : EditPane(p, v)
    \/ \E v \in TestTexts : EditTests(v)
    \/ \E v \in NoteTexts : EditAssignment(v)
    \/ RunTestsClick
    \/ \E fails \in BOOLEAN : SaveClick(fails, Clock[1], Clock[Len(Clock)])
    \/ clearOut

SpecSave == Init /\ [][NextSave]_vars

(* the files a user may pick: text that is no JSON, the JSON of null, of a
   project, of an object with no field and of one with html and an empty
   css alone *)
PickedFiles ==
    ImportFiles
        \cup {Item(<<"null">>), Item(<<"{", "}">>),
              Object([html |-> <<"p">>, css |-> <<>>])}

(* The editor with its file picker: page loads over the stores, edits and
   imports. *)
NextImport ==
    \/ \E p \in PaneNames, v \in StoreEdits : EditPane(p, v)
    \/ \E v \in TestTexts : EditTests(v)
    \/ \E f \in PickedFiles : FileChosen(f)
    \/ FileDismissed
    \/ \E f \in PickedFiles : FileRead(f)
    \/ clearOut

SpecImport == InitStore /\ [][NextImport]_vars

---------------------------------------------------------------------------
(* The tab strip and the font buttons. *)

(* a click on the tab of pane p *)
TabClick(p) ==
    /\ Len(frames) < MaxFrames
    /\ showPane(p)
    /\ trail' = NoTrail
    /\ lastOp' = "tabClick"
    /\ UNCHANGED <<focus, font, direct, core>>

(* a click on the strip that is on no tab: the handler returns *)
StripClick ==
    /\ lastOp' = "stripClick"
    /\ UNCHANGED <<view, core>>

Keys == {"ArrowLeft", "ArrowRight", "Enter"}

(* the index without the length added: the remainder of -1 is -1 *)
keyTarget_noWrap(idx, delta) == At(Rem(idx + delta, Len(TAB_ORDER)))

(* TAB_ORDER[(idx + delta + TAB_ORDER.length) % TAB_ORDER.length] *)
keyTarget(idx, delta) ==
    At(Rem(idx + delta + Len(TAB_ORDER), Len(TAB_ORDER)))

(* keydown on the tab strip *)
KeyDown(key) ==
    /\ IF key \in {"ArrowLeft", "ArrowRight"}
       THEN /\ Len(frames) < MaxFrames
            /\ showPane(keyTarget(indexOf(activePane),
                                  IF key = "ArrowLeft" THEN 0 - 1 ELSE 1))
       ELSE UNCHANGED <<tabs, wraps, frames>>
    /\ NoteKey(key)
    /\ lastOp' = "key"
    /\ UNCHANGED <<focus, font, direct, core>>

(* The host renders a frame: the callbacks of requestAnimationFrame run. *)
AnimationFrame ==
    /\ frames # <<>>
    /\ focus' = Focused(frames, focus)
    /\ frames' = <<>>
    /\ lastOp' = "frame"
    /\ UNCHANGED <<tabs, wraps, trail, font, direct, core>>

Font ==
    [fontItem |-> fontItem, currentFontSize |-> currentFontSize,
     edFont |-> edFont]

(* x <= n in the place of x < n *)
Below_orEqual(x, n) == ~x.nan /\ x.n <= n

(* x < n and x > n of JS, false of NaN *)
Below(x, n) == ~x.nan /\ x.n < n
Above(x, n) == ~x.nan /\ x.n > n

FontSet(fs) ==
    /\ fontItem' = fs.fontItem
    /\ currentFontSize' = fs.currentFontSize
    /\ edFont' = fs.edFont

(* #fontPlus click *)
FontPlus ==
    /\ FontSet(IF Below(currentFontSize, MaxFont) THEN fontStep(Font, 1)
               ELSE Font)
    /\ lastOp' = "fontPlus"
    /\ UNCHANGED <<strip, direct, core>>

(* #fontMinus click *)
FontMinus ==
    /\ FontSet(IF Above(currentFontSize, MinFont) THEN fontStep(Font, 0 - 1)
               ELSE Font)
    /\ lastOp' = "fontMinus"
    /\ UNCHANGED <<strip, direct, core>>

(* the font items a page load may find: none, sizes the buttons left,
   sizes another page of the origin left, and text that is no size *)
FontInits ==
    {Missing, Item(<<"17", "px">>), Item(<<"12", "px">>),
     Item(<<"26", "px">>), Item(<<"30", "px">>), Item(<<"8", "px">>),
     Item(<<"20">>), Item(<<"abc">>), Item(<<>>)}

InitView ==
    \E item \in FontInits :
        ProjectStarted(Missing, Startup(Missing)) /\ ViewStarted(item)

(* The editor with its tab strip and its font buttons. *)
NextView ==
    \/ \E p \in PaneNames : TabClick(p)
    \/ StripClick
    \/ \E k \in Keys : KeyDown(k)
    \/ AnimationFrame
    \/ FontPlus
    \/ FontMinus

SpecView == InitView /\ [][NextView]_vars

---------------------------------------------------------------------------
(* escapeHtml and log called on their own, as the test suite calls
   escapeHtml, next to the handlers that log. *)

EscChars == {"a", ";", "&", "<", ">", "\""}

(* the values handed to escapeHtml: strings, a number and null *)
EscInputs ==
    {Str(t) : t \in SeqsUpTo(EscChars, MaxEscLen)} \cup {Num("123"), Null}

CallEscape(v) ==
    /\ direct' = [fn |-> "escapeHtml", arg |-> v, type |-> "",
                  value |-> escapeHtml(String(v))]
    /\ lastOp' = "escape"
    /\ UNCHANGED <<strip, font, core>>

NextEsc == \E v \in EscInputs : CallEscape(v)

SpecEsc == Init /\ [][NextEsc]_vars

LogMsgs  == {<<"a">>, <<"<", "&">>}
LogTypes == {"error", "warn", "info", "debug"}

(* log(msg, type) called on its own *)
CallLog(msg, type) ==
    /\ CanLog
    /\ out' = log(out, msg, type)
    /\ direct' = [fn |-> "log", arg |-> Str(msg), type |-> type,
                  value |-> <<>>]
    /\ lastOp' = "log"
    /\ UNCHANGED <<texts, testEl, download, saved, preview, store, timers,
                   autoRunTimer, win, reading, result, hist, manual, strip,
                   font>>

(* The log with handlers that write to it at each level: direct calls,
   runs by click and by timer, saves, blocked previews and the clear
   button. *)
NextLog ==
    \/ \E m \in LogMsgs, t \in LogTypes : CallLog(m, t)
    \/ RunWebClick
    \/ TimerFires
    \/ Tick
    \/ \E fails \in BOOLEAN : SaveClick(fails, Clock[1], Clock[Len(Clock)])
    \/ \E b \in BOOLEAN : OpenPreviewClick(b)
    \/ clearOut

SpecLog == Init /\ [][NextLog]_vars

---------------------------------------------------------------------------
(* The scheduler over time.  The clock moves on, the host runs the callback
   of a due timer, and the user who lets the log fill clears it: the log of
   the model holds MaxLog lines, and a handler that logs waits for room. *)

LiveEdits == {<<>>}

NextLive ==
    \/ \E p \in PaneNames, v \in LiveEdits : EditPane(p, v)
    \/ \E v \in TestTexts : EditTests(v)
    \/ RunTestsClick
    \/ TimerFires
    \/ Tick
    \/ clearOut

Fairness ==
    /\ WF_vars(Tick)
    /\ WF_vars(clearOut)
    /\ SF_vars(TimerFires)

SpecLive == Init /\ [][NextLive]_vars /\ Fairness

(* The editor with all that renders: edits, the three ways to run, the
   timer and the isolated preview. *)
NextRender ==
    \/ \E p \in PaneNames, v \in StoreEdits : EditPane(p, v)
    \/ \E v \in TestTexts : EditTests(v)
    \/ \E v \in NoteTexts : EditAssignment(v)
    \/ RunWebClick
    \/ \E p \in PaneNames : RunCommand(p)
    \/ RunTestsClick
    \/ \E b \in BOOLEAN : OpenPreviewClick(b)
    \/ TimerFires
    \/ Tick
    \/ clearOut

SpecRender == Init /\ [][NextRender]_vars

(* The page left alone after it has loaded over one of the stores: the
   host runs timers and frames, nothing is edited, run, saved or imported,
   and the log is cleared when it is full. *)
NextIdle ==
    \/ TimerFires
    \/ Tick
    \/ AnimationFrame
    \/ clearOut

SpecIdle == InitStore /\ [][NextIdle]_vars /\ Fairness

---------------------------------------------------------------------------
(* Claims about the isolated preview and the scheduler. *)

IsObjectUrl(u) == u = "blob:text/html"

WriteApi == {"document.open", "document.write", "document.close"}

(* C1: an open-preview click never calls document.open, document.write or
   document.close on the new window; the window is opened at an object URL
   made from a Blob of type text/html that holds the assembled document. *)
C1_BlobNavigation ==
    lastOp = "openPreview" =>
        /\ \A i \in 1..Len(win.calls) : win.calls[i] \notin WriteApi
        /\ IsObjectUrl(win.url)

(* C2: change events that follow one another by less than the quiet period
   lead to exactly one rebuild by the timer: while none has come, the one
   pending timer is due one quiet period after the last event; none comes
   between two such events; and the one that comes was due one quiet period
   after the last event and leaves no timer behind. *)
C2_Debounce ==
    /\ autoFires <= 1
    /\ ~gapFire
    /\ autoFires = 0 =>
          timers = {[id |-> autoRunTimer, left |-> Delay - sinceEdit]}
    /\ autoFires = 1 =>
          /\ timers = {}
          /\ fired.late >= 0
          /\ fired.since = Delay + fired.late

C2_Witness ==
    /\ lastOp = "timer"
    /\ burst >= 2
    /\ autoFires = 1
    /\ fired.since >= Delay

(* C3: at most one debounce timer is pending in every reachable state. *)
C3_AtMostOneTimer == Cardinality(timers) <= 1

C3_Witness ==
    /\ lastOp \in {"edit", "import"}
    /\ burst >= 2
    /\ Cardinality(timers) = 1

(* C4: a manual run or run with tests assigns the inline preview in the same
   step from the texts as they are, and leaves the timer table and the kept
   handle as they were: a pending timer keeps its time left, an idle
   scheduler stays idle. *)
C4_ManualRunBypasses ==
    [][lastOp' \in {"run", "runTests"} =>
          /\ timers' = timers
          /\ autoRunTimer' = autoRunTimer
          /\ preview' = Assemble(ed_html, ed_css, ed_js, testArea,
                                 lastOp' = "runTests")]_vars

C4_Witness ==
    /\ lastOp \in {"run", "runTests"}
    /\ \E t \in timers : t.left > 0 /\ t.left < Delay
    /\ preview # <<>>

(* C5, as claimed: when the timer fires after a manual run or run with tests
   and no text changed in between, the inline preview is what the manual
   action put there. *)
C5_RedundantRebuild ==
    (lastOp = "timer" /\ manual.valid) => preview = manual.doc

(* C5, amended: that holds after a run, and after a run with tests whose
   test text is empty after trimming; after a run with tests over other test
   text the timer replaces the document with tests by the one assembled
   without them. *)
C5_RebuildWithoutTests ==
    (lastOp = "timer" /\ manual.valid) =>
        IF manual.withTests /\ trim(testArea) # <<>>
        THEN /\ preview # manual.doc
             /\ preview = Assemble(ed_html, ed_css, ed_js, testArea, FALSE)
        ELSE preview = manual.doc

C5_Witness ==
    /\ lastOp = "timer"
    /\ manual.valid
    /\ manual.withTests
    /\ preview = manual.doc

---------------------------------------------------------------------------
(* Claims about the assembler. *)

Count(s, sub) == Cardinality(Occurrences(s, sub))

(* the occurrences of sub that the three pane texts hold themselves *)
PaneCount(sub) ==
    Count(ed_html, sub) + Count(ed_css, sub) + Count(ed_js, sub)

Blank(t) == trim(t) = <<>>

(* C6, as claimed: over test text that is not empty after trimming, the
   document with tests contains the trimmed text and the marker, after the
   user's JS; the document without tests contains neither. *)
C6_TestsOnlyWithFlag ==
    ~Blank(testArea) =>
        /\ result.called[TRUE] =>
              Includes(result.doc[TRUE],
                       ed_js \o <<"\n", "\n", Marker, "\n">> \o trim(testArea))
        /\ result.called[FALSE] =>
              /\ ~Includes(result.doc[FALSE], trim(testArea))
              /\ ~Includes(result.doc[FALSE], <<Marker>>)

(* C6, amended: the document with tests holds the user's JS, the marker and
   the trimmed test text in that order inside the try block; the document
   without tests holds the trimmed test text and the marker only where the
   pane texts hold them. *)
C6_TestsOnlyFromPanes ==
    ~Blank(testArea) =>
        /\ result.called[TRUE] =>
              Includes(result.doc[TRUE],
                       <<"try{">> \o ed_js \o <<"\n", "\n", Marker, "\n">>
                           \o trim(testArea) \o <<"}catch(e) {">>)
        /\ result.called[FALSE] =>
              /\ Count(result.doc[FALSE], trim(testArea))
                     = PaneCount(trim(testArea))
              /\ Count(result.doc[FALSE], <<Marker>>) = PaneCount(<<Marker>>)

C6_Witness ==
    /\ result.called[TRUE] /\ result.called[FALSE]
    /\ ~Blank(testArea)
    /\ trim(testArea) # testArea
    /\ ed_js # <<>>

(* C7, as claimed: over test text that is empty or only whitespace, the
   document with tests is the document without tests, and contains no
   marker. *)
C7_BlankTestsIgnored ==
    (Blank(testArea) /\ result.called[TRUE] /\ result.called[FALSE]) =>
        /\ result.doc[TRUE] = result.doc[FALSE]
        /\ ~Includes(result.doc[TRUE], <<Marker>>)

(* C7, amended: the two documents are the same, and contain the marker only
   where the pane texts hold it. *)
C7_BlankTestsAddNothing ==
    (Blank(testArea) /\ result.called[TRUE] /\ result.called[FALSE]) =>
        /\ result.doc[TRUE] = result.doc[FALSE]
        /\ Count(result.doc[TRUE], <<Marker>>) = PaneCount(<<Marker>>)

C7_Witness ==
    /\ result.called[TRUE] /\ result.called[FALSE]
    /\ testArea # <<>>
    /\ Blank(testArea)
    /\ result.doc[TRUE] = result.doc[FALSE]

(* css in the style block of the head, then html as the body's content, then
   js in the script block *)
InOrder(doc) ==
    Includes(doc,
             <<"<head>", "<meta charset>", "<meta viewport>", "<style>">>
                 \o ed_css \o <<"\n", "</style>", "</head>", "<body>">>
                 \o ed_html \o <<"<script>", "try{">> \o ed_js \o <<"\n">>)

(* C8, as claimed: with empty test text and no tests asked for, the document
   holds css, html and js verbatim, each in its block and in that order, and
   no marker. *)
C8_PanesVerbatim ==
    (testArea = <<>> /\ result.called[FALSE]) =>
        /\ InOrder(result.doc[FALSE])
        /\ ~Includes(result.doc[FALSE], <<Marker>>)

(* C8, amended: the same, with the marker only where the pane texts hold
   it. *)
C8_PanesVerbatimOnly ==
    (testArea = <<>> /\ result.called[FALSE]) =>
        /\ InOrder(result.doc[FALSE])
        /\ Count(result.doc[FALSE], <<Marker>>) = PaneCount(<<Marker>>)

C8_Witness ==
    /\ testArea = <<>>
    /\ result.called[FALSE]
    /\ ed_html # <<>> /\ ed_css # <<>> /\ ed_js # <<>>
    /\ ed_css # ed_html

(* C9: in every assembled document the script block is try{, the user's JS,
   the test part if there is one, and the catch clause that reports to the
   console, and nothing else. *)
C9_FailureBoundary ==
    \A b \in BOOLEAN :
        result.called[b] =>
            \E u \in {<<>>, <<"\n", Marker, "\n">> \o trim(testArea)} :
                Includes(result.doc[b],
                         <<"<script>", "try{">> \o ed_js \o <<"\n">> \o u
                             \o <<"}catch(e) {", "console.error(e)", "}",
                                  "</script>">>)

C9_Witness ==
    /\ result.called[TRUE]
    /\ result.last = TRUE
    /\ ~Blank(testArea)
    /\ ed_js # <<>>

(* C10: a call of the assembler changes no pane, no test or assignment text,
   not the inline preview, the store, the scheduler or the log, and returns
   the document that the earlier call with the same flag over the same texts
   returned. *)
C10_PureAssembler ==
    [][lastOp' = "build" =>
          /\ UNCHANGED <<texts, preview, store, timers, autoRunTimer, out>>
          /\ result.called[result'.last] =>
                result'.doc[result'.last] = result.doc[result'.last]]_vars

C10_Witness ==
    /\ lastOp = "build"
    /\ result.count >= 2
    /\ result.called[TRUE] /\ ~result.called[FALSE]
    /\ ~Blank(testArea)

(* a whole document: the doctype first, the end of the html element last *)
Complete(doc) ==
    /\ doc # <<>>
    /\ Head(doc) = "<!DOCTYPE html>"
    /\ doc[Len(doc)] = "</html>"

(* C11, as claimed: every call of the assembler returns a whole document,
   and on a page without the test field the document contains no marker,
   with or without tests asked for. *)
C11_AbsentTestsNoMarker ==
    \A b \in BOOLEAN :
        result.called[b] =>
            /\ Complete(result.doc[b])
            /\ ~testEl => ~Includes(result.doc[b], <<Marker>>)

(* C11, amended: every call returns a whole document, and on a page without
   the test field it is the document over empty test text, with the marker
   only where the pane texts hold it. *)
C11_AbsentTestsAsEmpty ==
    \A b \in BOOLEAN :
        result.called[b] =>
            /\ Complete(result.doc[b])
            /\ ~testEl =>
                  /\ result.doc[b] = Assemble(ed_html, ed_css, ed_js, <<>>, b)
                  /\ Count(result.doc[b], <<Marker>>) = PaneCount(<<Marker>>)

C11_Witness ==
    /\ ~testEl
    /\ lastOp = "build"
    /\ result.last = TRUE
    /\ result.called[TRUE]
    /\ ed_html # <<>>

---------------------------------------------------------------------------
(* Claims about the store. *)

(* C12: on the page load that follows a save that wrote the store, the
   three panes, the assignment and the test text are the texts that were
   saved. *)
C12_RoundTrip ==
    (lastOp = "reload" /\ saved.valid) =>
        /\ ed_html = saved.html /\ ed_css = saved.css /\ ed_js = saved.js
        /\ assignment = saved.assignment
        /\ testArea = saved.test

(* the line that log(msg, type) appends *)
Line(msg, type) == [color |-> color(type), text |-> escapeHtml(msg)]

Logged(msg) == \E i \in 1..Len(out) : out[i].text = escapeHtml(msg)

ErrorLogged == \E i \in 1..Len(out) : out[i].color = color("error")

Loading == lastOp \in {"startup", "reload"}

(* the parsed value is an object whose html, css and js are strings that
   are not empty *)
HoldsProject(v) ==
    /\ v.type = "object"
    /\ \A f \in {"html", "css", "js"} :
          /\ f \in DOMAIN v.obj
          /\ v.obj[f].type = "string"
          /\ v.obj[f].text # <<>>

(* C13: when the item is missing, is not JSON, is not the JSON of an object
   or is that of an object without a non-empty html, css or js, the page
   load leaves the three panes at the default content and logs the fresh
   start, not the load, and no error. *)
C13_FallbackToDefaults ==
    Loading =>
        \A v \in {JSONparse(store.text)} :
            (store.kind = "missing" \/ ~HoldsProject(v)) =>
                /\ ed_html = DefaultHtml
                /\ ed_css = DefaultCss
                /\ ed_js = DefaultJs
                /\ Logged(MsgFresh)
                /\ ~Logged(MsgLoaded)
                /\ ~ErrorLogged

C13_Witness ==
    /\ lastOp = "reload"
    /\ saved.valid
    /\ saved.html # <<>>
    /\ saved.css = <<>>
    /\ Logged(MsgFresh)

(* the text of field f of the object o, the empty text if o has none *)
Stored(o, f) == IF f \in DOMAIN o THEN o[f].text ELSE <<>>

(* C14: when the item is the JSON of an object with non-empty html, css and
   js, the page load leaves the three panes at the stored texts and the
   assignment and the test text at the stored ones, or empty where the
   object has none, and logs the load, not the fresh start, and no error. *)
C14_LoadsStoredProject ==
    Loading =>
        \A v \in {JSONparse(store.text)} :
            (store.kind = "text" /\ HoldsProject(v)) =>
                /\ ed_html = v.obj["html"].text
                /\ ed_css = v.obj["css"].text
                /\ ed_js = v.obj["js"].text
                /\ assignment = Stored(v.obj, "assignment")
                /\ testArea = Stored(v.obj, "test")
                /\ Logged(MsgLoaded)
                /\ ~Logged(MsgFresh)
                /\ ~ErrorLogged

C14_Witness ==
    /\ lastOp = "reload"
    /\ ~saved.valid
    /\ ed_html = <<"a">>
    /\ assignment = <<"n">>
    /\ testArea = <<>>
    /\ Logged(MsgLoaded)

(* C15: when the item is the JSON of an object with a non-empty html, empty
   css and js and no assignment or test, the page load leaves the stored
   html in the html pane, the other panes, the assignment and the test text
   empty, and logs no error. *)
C15_PartialProjectLoads ==
    Loading =>
        \A v \in {JSONparse(store.text)} :
            (/\ store.kind = "text"
             /\ v.type = "object"
             /\ DOMAIN v.obj = {"html", "css", "js"}
             /\ v.obj["html"].text # <<>>
             /\ v.obj["css"] = Str(<<>>)
             /\ v.obj["js"] = Str(<<>>)) =>
                /\ ed_html = v.obj["html"].text
                /\ ed_css = <<>>
                /\ ed_js = <<>>
                /\ assignment = <<>>
                /\ testArea = <<>>
                /\ ~ErrorLogged

(* C16: a save whose write succeeds leaves under the key the JSON of an
   object whose html, css, js, assignment and test are the texts as they
   are, triggers the download of that same text as Code-web.json, appends
   the one line of success to the log, and changes no pane and not the
   inline preview. *)
C16_SaveWritesAndDownloads ==
    [][lastOp' = "save" =>
          \A v \in {JSONparse(store'.text)} :
              /\ store'.kind = "text"
              /\ v.type = "object"
              /\ Stored(v.obj, "html") = ed_html
              /\ Stored(v.obj, "css") = ed_css
              /\ Stored(v.obj, "js") = ed_js
              /\ {"assignment", "test"} \subseteq DOMAIN v.obj
              /\ v.obj["assignment"] = Str(assignment)
              /\ v.obj["test"] = Str(testArea)
              /\ download' = [name |-> "Code-web.json",
                              type |-> "application/json",
                              text |-> store'.text]
              /\ out' = Append(out, Line(MsgSaved, "info"))
              /\ UNCHANGED <<ed_html, ed_css, ed_js, preview>>]_vars

C16_Witness ==
    /\ lastOp = "save"
    /\ preview # <<>>
    /\ ed_css = <<>>
    /\ testArea # <<>>
    /\ assignment # <<>>
    /\ download.text = store.text

(* C17: a save whose write throws appends the one error line that names the
   failure, and nothing else: no line of success, no download, and the item
   under the key, the panes, the fields and the inline preview stay. *)
C17_FailedSaveAborts ==
    [][lastOp' = "saveFailed" =>
          /\ out' = Append(out, Line(MsgSaveFailed, "error"))
          /\ Includes(MsgSaveFailed, <<"QuotaExceededError">>)
          /\ UNCHANGED <<store, download, texts, preview>>]_vars

C17_Witness ==
    /\ lastOp = "saveFailed"
    /\ store.kind = "text"
    /\ download.text = store.text
    /\ saved.css # ed_css
    /\ ErrorLogged
    /\ ~Logged(MsgSaved)

---------------------------------------------------------------------------
(* Claims about the import and about the errors that are logged. *)

(* the file whose text arrived in this step is one that JSON.parse rejects *)
RejectedFileRead ==
    /\ lastOp' \in {"import", "importInvalid", "importUnable"}
    /\ \E f \in reading \ reading' : JSONparse(f.text).type = "throw"

(* C18: when the text of an imported file is rejected by JSON.parse, the one
   error line 'Invalid project file' is appended and the panes, the
   assignment, the test text and the store stay as they are, with no
   default content; a picker closed without a file changes nothing and logs
   nothing. *)
C18_InvalidImportOnlyLogs ==
    [][/\ RejectedFileRead =>
             /\ out' = Append(out, Line(MsgInvalid, "error"))
             /\ UNCHANGED <<texts, store, preview, timers, autoRunTimer>>
       /\ lastOp' = "dismiss" =>
             UNCHANGED <<texts, store, preview, timers, autoRunTimer, out,
                         reading, download, win>>]_vars

C18_Witness ==
    /\ lastOp = "importInvalid"
    /\ store.kind = "text"
    /\ ed_html = <<"a">>
    /\ ed_css = <<>>
    /\ testArea # <<>>
    /\ out = <<Line(MsgInvalid, "error")>>

(* the item under the key is missing or is text that JSON.parse rejects *)
BadItem == store.kind = "missing" \/ JSONparse(store.text).type = "throw"

ErrorLines(lines) ==
    Cardinality({i \in 1..Len(lines) : lines[i].color = color("error")})

(* C19, as claimed: a page load over a missing or rejected item, and the
   import of a rejected file, each log exactly one line at level error. *)
C19_DataErrorsAtErrorLevel ==
    /\ []((Loading /\ BadItem) => ErrorLines(out) = 1)
    /\ [][RejectedFileRead =>
             /\ Len(out') = Len(out) + 1
             /\ out'[Len(out')].color = color("error")]_vars

(* C19, amended: the import of a rejected file logs exactly one line, at
   level error; a page load over a missing or rejected item logs exactly
   one line about it, the fresh start, at level info, and no error line. *)
C19_ImportErrorsAtErrorLevel ==
    /\ []((Loading /\ BadItem) =>
             /\ out = <<Line(MsgFresh, "info"), Line(MsgReady, "info")>>
             /\ ErrorLines(out) = 0)
    /\ [][RejectedFileRead =>
             /\ Len(out') = Len(out) + 1
             /\ SubSeq(out', 1, Len(out)) = out
             /\ out'[Len(out')] = Line(MsgInvalid, "error")]_vars

C19_Witness ==
    /\ lastOp = "importInvalid"
    /\ BadItem
    /\ ErrorLines(out) = 1
    /\ Len(out) = 2

(* C20: an open-preview click for which window.open returns no window
   appends no line to the log and changes neither the inline preview, the
   panes, the scheduler nor the store. *)
C20_BlockedOpenIsSilent ==
    [][lastOp' = "openBlocked" =>
          UNCHANGED <<out, preview, texts, timers, autoRunTimer, store>>]_vars

---------------------------------------------------------------------------
(* Claims about the tab strip. *)

Selected(p) ==
    /\ tabs[p].active
    /\ tabs[p].ariaSelected = "true"
    /\ tabs[p].tabIndex = 0

Unselected(p) ==
    /\ ~tabs[p].active
    /\ tabs[p].ariaSelected = "false"
    /\ tabs[p].tabIndex = 0 - 1

(* C21: the active pane is html when the page has loaded, and in every
   state reached by clicks and keys on the tab strip exactly one tab is
   selected, by class, aria-selected and tabIndex alike, exactly one pane
   wrapper is visible, and it is the wrapper of the selected tab's pane. *)
C21_OneTabOnePane ==
    /\ lastOp = "startup" => activePane = "html"
    /\ Cardinality({p \in PaneNames : Selected(p)}) = 1
    /\ \A p \in PaneNames : Selected(p) \/ Unselected(p)
    /\ Cardinality({k \in PaneNames : ~wraps[k].hidden}) = 1
    /\ \A p \in PaneNames : Selected(p) <=> ~wraps[p].hidden
    /\ Selected(activePane)

C21_Witness ==
    /\ lastOp = "key"
    /\ Len(trail) = 2
    /\ trail[1].from = "html"
    /\ trail[2].from = "css"
    /\ Selected("js")
    /\ ~wraps["js"].hidden
    /\ wraps["html"].hidden

RightOf == [html |-> "css", css |-> "js", js |-> "html"]
LeftOf  == [html |-> "js", css |-> "html", js |-> "css"]

(* the pane that is to be active after key came while p was *)
After(key, p) ==
    IF key = "ArrowRight" THEN RightOf[p]
    ELSE IF key = "ArrowLeft" THEN LeftOf[p] ELSE p

(* C22: a right arrow on the tab strip makes the next pane of html, css, js
   the active one and a left arrow the previous one, around the ends; any
   other key leaves the active pane; a left arrow and then a right arrow
   lead back to the pane they started from, and two left arrows lead from
   css to html and then to js. *)
C22_ArrowsCycle ==
    /\ Len(trail) >= 1 =>
          activePane = After(trail[Len(trail)].key, trail[Len(trail)].from)
    /\ Len(trail) = 2 =>
          /\ trail[2].from = After(trail[1].key, trail[1].from)
          /\ (trail[1].key = "ArrowLeft" /\ trail[2].key = "ArrowRight") =>
                activePane = trail[1].from
          /\ (/\ trail[1] = [key |-> "ArrowLeft", from |-> "css"]
              /\ trail[2].key = "ArrowLeft") =>
                trail[2].from = "html" /\ activePane = "js"

C22_Witness ==
    /\ lastOp = "key"
    /\ trail = <<[key |-> "ArrowLeft", from |-> "html"],
                 [key |-> "ArrowRight", from |-> "js"]>>
    /\ activePane = "html"

---------------------------------------------------------------------------
(* Claims about escapeHtml and the log. *)

EntityOf ==
    [c \in {"&", "<", ">", "\""} |->
        IF c = "&" THEN "&amp;" ELSE IF c = "<" THEN "&lt;"
        ELSE IF c = ">" THEN "&gt;" ELSE "&quot;"]

(* the characters of a token of an escaped text *)
Chars(tok) ==
    CASE tok = "&amp;" -> <<"&", "a", "m", "p", ";">>
      [] tok = "&lt;" -> <<"&", "l", "t", ";">>
      [] tok = "&gt;" -> <<"&", "g", "t", ";">>
      [] tok = "&quot;" -> <<"&", "q", "u", "o", "t", ";">>
      [] OTHER -> <<tok>>

RECURSIVE AllChars(_)
AllChars(s) == IF s = <<>> THEN <<>> ELSE Chars(Head(s)) \o AllChars(Tail(s))

Entities == {Chars(EntityOf[c]) : c \in DOMAIN EntityOf}

(* C23: escapeHtml of a value is the text of the value, of a string the
   string itself, with each of & < > " replaced by its entity and every
   other character kept in its place; the result has no < > or " in it,
   and every & in it begins one of the four entities. *)
C23_EscapesFour ==
    direct.fn = "escapeHtml" =>
        LET in  == IF direct.arg.type = "string" THEN direct.arg.text
                   ELSE IF direct.arg.type = "number" THEN direct.arg.text
                   ELSE <<"null">>
            res == AllChars(direct.value)
        IN  /\ Len(direct.value) = Len(in)
            /\ \A i \in 1..Len(in) :
                  direct.value[i] = IF in[i] \in DOMAIN EntityOf
                                    THEN EntityOf[in[i]] ELSE in[i]
            /\ \A i \in 1..Len(res) :
                  /\ res[i] \notin {"<", ">", "\""}
                  /\ res[i] = "&" =>
                        \E e \in Entities :
                            /\ i + Len(e) - 1 <= Len(res)
                            /\ SubSeq(res, i, i + Len(e) - 1) = e

C23_Witness ==
    /\ direct.fn = "escapeHtml"
    /\ direct.arg = Str(<<"&", "<", "&">>)
    /\ direct.value = <<"&amp;", "&lt;", "&amp;">>

---------------------------------------------------------------------------
(* Claims about the font size. *)

(* C24: when the page has loaded and when a click on a font button has been
   handled, the font item is the text of the current font size followed by
   px, and each of the three editors has that size. *)
C24_FontItemInPx ==
    /\ fontItem.kind = "text"
    /\ Len(fontItem.text) = 2
    /\ fontItem.text[1] = IF currentFontSize.nan THEN "NaN"
                          ELSE Numeral[currentFontSize.n + 1]
    /\ fontItem.text[2] = "px"
    /\ \A p \in PaneNames : edFont[p] = fontItem.text

C24_Witness ==
    /\ lastOp = "fontMinus"
    /\ currentFontSize = Size(18)
    /\ fontItem.text = <<"18", "px">>
    /\ edFont["js"] = <<"18", "px">>

---------------------------------------------------------------------------
(* Claims about the scheduler over time. *)

(* the changes of the panes have stopped: from some time on the last one is
   a quiet period or more ago *)
EditsStop == <>[](sinceEdit >= Delay)

(* C25: when the changes of the panes stop, every change of a pane is
   followed by a state in which the inline preview is the document
   assembled without tests from the pane texts as they then are. *)
C25_EditsReachPreview ==
    EditsStop => [](lastOp = "edit" => <>(preview = buildwebSrcdoc(FALSE)))

C25_Witness ==
    /\ lastOp = "timer"
    /\ burst >= 2
    /\ fired.since >= Delay
    /\ trim(testArea) # <<>>
    /\ preview = buildwebSrcdoc(FALSE)
    /\ ed_html = <<>>

(* the colour of a level *)
ColourOf ==
    [t \in LogTypes |->
        IF t = "error" THEN "var(--err)"
        ELSE IF t = "warn" THEN "var(--warn)" ELSE "var(--brand)"]

Escaped(msg) ==
    [i \in 1..Len(msg) |->
        IF msg[i] \in DOMAIN EntityOf THEN EntityOf[msg[i]] ELSE msg[i]]

(* C26: a step leaves the log as it is, or appends one line to its end, in
   one of the three colours, or is the clear that leaves it empty; a call of
   log appends the line of the escaped message in the colour of its level;
   no step changes or removes a line that is there, and only the clear makes
   the log shorter. *)
C26_LogAppendOnly ==
    [][/\ \/ out' = out
          \/ lastOp' = "clear" /\ out' = <<>>
          \/ /\ Len(out') = Len(out) + 1
             /\ SubSeq(out', 1, Len(out)) = out
             /\ out'[Len(out')].color \in {ColourOf[t] : t \in LogTypes}
       /\ lastOp' = "log" =>
             out' = Append(out, [color |-> ColourOf[direct'.type],
                                 text |-> Escaped(direct'.arg.text)])
       /\ lastOp' = "clear" => out' = <<>>
       /\ Len(out') < Len(out) => lastOp' = "clear"]_vars

C26_Witness ==
    /\ lastOp = "log"
    /\ direct.type = "warn"
    /\ Len(out) = 2
    /\ out[1].color = "var(--err)"
    /\ out[2] = [color |-> "var(--warn)", text |-> <<"&lt;", "&amp;">>]

(* the document assembled without tests from what the page load put in the
   panes, from the store or from the default content *)
LoadedDoc ==
    CHOOSE d \in {Assemble(st.ed_html, st.ed_css, st.ed_js, st.testArea,
                           FALSE) : st \in {Startup(store)}} : TRUE

(* C27: the page load, which fills the panes after the change listeners are
   wired, leaves one pending timer due a quiet period later; on a page left
   alone the inline preview is empty until that period has passed, is
   afterwards empty or the document assembled from the loaded content, and
   is that document in the end. *)
C27_LoadSchedulesRebuild ==
    /\ [](sinceEdit < Delay =>
             /\ preview = <<>>
             /\ timers = {[id |-> autoRunTimer, left |-> Delay - sinceEdit]})
    /\ [](preview # <<>> => preview = LoadedDoc)
    /\ <>(preview = LoadedDoc)

C27_Witness ==
    /\ lastOp = "timer"
    /\ store.kind = "text"
    /\ ed_html = <<"a">>
    /\ fired.since = Delay
    /\ preview = LoadedDoc

---------------------------------------------------------------------------
(* Claims about what reaches the rendering surfaces. *)

(* the document over the pane texts with no test part *)
PlainDoc == Assemble(ed_html, ed_css, ed_js, <<>>, FALSE)

(* C28: the inline preview is assigned by the timer, by a run, by the run
   command of an editor and by a run with tests and by nothing else, the
   window of the isolated preview is written by an open-preview click
   alone, and but for the run with tests each of them gets the document
   over the pane texts with no test part, whatever the test text is. *)
C28_TestsOnlyOnRequest ==
    [][/\ preview' # preview =>
             lastOp' \in {"timer", "run", "runKey", "runTests"}
       /\ lastOp' \in {"timer", "run", "runKey"} => preview' = PlainDoc
       /\ win' # win => lastOp' \in {"openPreview", "openBlocked"}
       /\ lastOp' = "openPreview" => win'.doc = PlainDoc]_vars

C28_Witness ==
    /\ lastOp = "openPreview"
    /\ trim(testArea) # <<>>
    /\ manual.valid /\ manual.withTests
    /\ preview = buildwebSrcdoc(TRUE)
    /\ win.doc = PlainDoc
    /\ win.doc # preview

(* C29: a change of the test text or of the assignment text leaves the
   timer table, the kept handle and the inline preview as they are: a
   document that a run with tests put in the inline preview stays there,
   over the old test text, when the test text changes. *)
C29_OnlyPanesSchedule ==
    [][lastOp' \in {"editTests", "editAssignment"} =>
          UNCHANGED <<timers, autoRunTimer, preview>>]_vars

C29_Witness ==
    /\ lastOp = "editTests"
    /\ testArea = <<>>
    /\ preview = Assemble(ed_html, ed_css, ed_js, <<"t">>, TRUE)
    /\ \E t \in timers : t.left > 0 /\ t.left < Delay

---------------------------------------------------------------------------
(* Claims about the import of objects. *)

(* C30: when the text of an imported file is the JSON of an object, the
   three panes, the assignment and the test text become the texts of the
   object's fields of those names, empty where the object has no such field
   or an empty one, and the one line of the load is appended to the log; an
   object without a non-empty html, css or js leaves panes empty, not at
   the default content. *)
C30_ImportTakesFields ==
    [][\A f \in reading \ reading' :
          \A v \in {JSONparse(f.text)} :
              v.type = "object" =>
                  /\ ed_html' = Stored(v.obj, "html")
                  /\ ed_css' = Stored(v.obj, "css")
                  /\ ed_js' = Stored(v.obj, "js")
                  /\ assignment' = Stored(v.obj, "assignment")
                  /\ testArea' = Stored(v.obj, "test")
                  /\ out' = Append(out, Line(MsgLoaded, "info"))
                  /\ ~HoldsProject(v) =>
                        /\ <<>> \in {ed_html', ed_css', ed_js'}
                        /\ ed_css' # DefaultCss
                        /\ ed_js' # DefaultJs]_vars

C30_Witness ==
    /\ lastOp = "import"
    /\ ed_html = <<"p">>
    /\ ed_css = <<>>
    /\ ed_js = <<>>
    /\ testArea = <<>>
    /\ out # <<>>
    /\ out[Len(out)] = Line(MsgLoaded, "info")

---------------------------------------------------------------------------
(* The import while its file is read.  The change handler of #openFile is
   the one async function of the script: it has run up to its await when
   the page is in the state below, and everything that follows runs while
   the text of a file is awaited or after the last read has completed. *)

(* the files whose text is awaited: two projects that differ in each
   field *)
SuspendFiles ==
    {Object([html |-> <<"a">>, css |-> <<"a">>, js |-> <<"a">>,
             test |-> <<"t">>]),
     Object([html |-> <<"p">>, css |-> <<"q">>, js |-> <<"r">>,
             assignment |-> <<"n">>])}

(* the page loaded over no store, and then files picked before anything
   else is done: each handler has returned at its await *)
InitSuspend ==
    \E fs \in (SUBSET SuspendFiles) \ {{}} :
        \E st \in {Startup(Missing)} :
            /\ ed_html = st.ed_html /\ ed_css = st.ed_css
            /\ ed_js = st.ed_js
            /\ testArea = st.testArea /\ assignment = st.assignment
            /\ testEl = st.testEl
            /\ out = st.out
            /\ timers = st.timers /\ autoRunTimer = st.autoRunTimer
            /\ store = Missing
            /\ download = NoDownload
            /\ preview = <<>>
            /\ win = NoWin
            /\ reading = fs
            /\ result = NoResult
            /\ lastOp = "choose"
            /\ sinceEdit = 0 /\ burst = 1 /\ autoFires = 0
            /\ gapFire = FALSE
            /\ fired = NoFire
            /\ manual = NoManual
            /\ saved = NoSaved
            /\ ViewStarted(Missing)

(* The editor from the choice of the files on: edits, runs, saves, the
   clock, the timer and the arrival of the texts. *)
NextSuspend ==
    \/ \E v \in StoreEdits : EditPane("html", v)
    \/ \E v \in TestTexts : EditTests(v)
    \/ RunTestsClick
    \/ SaveClick(FALSE, Clock[1], Clock[Len(Clock)])
    \/ TimerFires
    \/ Tick
    \/ \E f \in SuspendFiles : FileRead(f)
    \/ clearOut

SpecSuspend == InitSuspend /\ [][NextSuspend]_vars

---------------------------------------------------------------------------
(* Claims about the import while its file is read. *)

(* the five texts a project file gives: the texts of its fields, empty
   where the file has no such field *)
FileValues(f) ==
    CHOOSE t \in {<<Stored(v.obj, "html"), Stored(v.obj, "css"),
                    Stored(v.obj, "js"), Stored(v.obj, "test"),
                    Stored(v.obj, "assignment")>> :
                        v \in {JSONparse(f.text)}} : TRUE

(* C31: the import alone spans two steps, the choice of the file and the
   arrival of its text, and edits, runs with tests, saves, timer expiries
   and other arrivals come between the two.  When the text of a project
   file arrives, the three panes, the test text and the assignment become
   the file's texts whatever they were, so the arrival that comes last
   decides; the arrival leaves the stored project as it is, and the stored
   project changes in no step but a save that wrote.  No other handler
   takes a file out of the awaited ones. *)
C31_ImportLastWriter ==
    /\ [][\A f \in reading \ reading' :
             /\ <<ed_html', ed_css', ed_js', testArea', assignment'>>
                   = FileValues(f)
             /\ store' = store
             /\ lastOp' = "import"]_vars
    /\ [][store' # store => lastOp' = "save"]_vars
    /\ [][reading' # reading => lastOp' = "import"]_vars

(* the second project has arrived last, over a cleared html pane and a
   test text typed, saved and run while the files were read *)
C31_Witness ==
    /\ lastOp = "import"
    /\ reading = {}
    /\ <<ed_html, ed_css, ed_js, testArea, assignment>>
          = <<<<"p">>, <<"q">>, <<"r">>, <<>>, <<"n">>>>
    /\ saved.valid
    /\ saved.html = <<>>
    /\ saved.test = <<"t">>
    /\ store # Missing
    /\ preview = Assemble(<<>>, DefaultCss, DefaultJs, <<"t">>, TRUE)

---------------------------------------------------------------------------
(* Claims about the bounds of the font size. *)

(* the current font size is a number from 12 to 26 *)
InRange(x) == ~x.nan /\ x.n >= MinFont /\ x.n <= MaxFont

(* C32: from a font size within 12..26 a click on either button leaves
   the size within 12..26, so a size that is there when the page has loaded
   stays there; a click on plus at 26 and a click on minus at 12 leave the
   current size and the font item as they are, and any other click on plus
   adds exactly one and any other click on minus takes exactly one. *)
C32_FontStaysInBounds ==
    /\ [][InRange(currentFontSize) => InRange(currentFontSize')]_vars
    /\ [][(InRange(currentFontSize) /\ lastOp' = "fontPlus") =>
             IF currentFontSize.n = MaxFont
             THEN UNCHANGED <<currentFontSize, fontItem>>
             ELSE currentFontSize' = Size(currentFontSize.n + 1)]_vars
    /\ [][(InRange(currentFontSize) /\ lastOp' = "fontMinus") =>
             IF currentFontSize.n = MinFont
             THEN UNCHANGED <<currentFontSize, fontItem>>
             ELSE currentFontSize' = Size(currentFontSize.n - 1)]_vars

(* plus has been clicked and the size stands at the upper bound *)
C32_Witness ==
    /\ lastOp = "fontPlus"
    /\ currentFontSize = Size(MaxFont)
    /\ fontItem = Item(<<"26", "px">>)
    /\ \A p \in PaneNames : edFont[p] = <<"26", "px">>

====
